---- MODULE Spec2Model ----
(***************************************************************************)
(* Model of the cached MongoDB connection manager                          *)
(* (src/lib/services/Mongoose/connectToDb.ts), of the service accessor     *)
(* getConnection (mongoose.service, quoted in README.md) and of the typed  *)
(* environment accessor getEnvVar (src/services/Utils/getEnvVar.ts).       *)
(*                                                                         *)
(* Execution model: one JavaScript event loop.  Every action is the code   *)
(* that runs between two suspension points (await).  Continuations of a    *)
(* settled promise are microtasks: they run before the next macrotask      *)
(* (I/O completion, timer, emitted event), but calls made by other code    *)
(* from its own microtasks may interleave with them.                       *)
(*                                                                         *)
(* Spec is the connection manager.  EnvSpec applies the functions of       *)
(* getEnvVar.ts and the option building of connectToDb, which have no      *)
(* state, to arguments and environments drawn from bounded sets.           *)
(* FairSpec is the connection manager with the fairness of the event loop. *)
(***************************************************************************)
EXTENDS Integers, Sequences, FiniteSets, TLC

VARIABLES
    nodeEnv,     \* NODE_ENV as read once when the module is loaded (line 46)
    cached,      \* global.mongoose: [conn, promise]
    chains,      \* the promises created at line 134, by creation order: state,
                 \* attempt (line 132), number of mongoose.connect calls made,
                 \* and the value (the handle of the connection it opened) or
                 \* the error (of its k-th attempt) it settled with
    callCount,   \* number of mongoose.connect calls made so far (line 137)
    readyState,  \* mongoose.connection.readyState
    liveConn,    \* the connection the client established last (its handle)
    listeners,   \* number of 'disconnected' listeners registered (line 138)
    callers,     \* the asynchronous callers of the exported operations
    last,        \* history: the operation that acted last
    envIn,       \* the arguments of a call of a function of getEnvVar.ts or of
                 \* the option building of connectToDb (lines 100-129)
    envOut       \* what that call returned or threw

vars == <<nodeEnv, cached, chains, callCount, readyState, liveConn, listeners, callers, last,
          envIn, envOut>>

\* ---------------------------------------------------------------- bounds
NumCallers == 2
MaxCalls == 3
MaxLen == 2

Callers == 1..NumCallers

\* ------------------------------------------------------------- constants
Null == 0

NodeEnvs == {"development", "production", "test"}

\* readyState values of the mongoose connection
STATES == [disconnected |-> 0, connected |-> 1, connecting |-> 2, disconnecting |-> 3]

\* ------------------------------------------------------------- getEnvVar
\* JavaScript values, tagged with their typeof: a finite number is n, a string
\* is the sequence s of its characters, a boolean is n = 1 or 0; the numbers
\* NaN and Infinity and the objects (null, {}, []) are told apart by their text.
Undefined == [t |-> "undefined", n |-> 0, s |-> <<>>]
Str(s) == [t |-> "string", n |-> 0, s |-> s]
Num(n) == [t |-> "number", n |-> n, s |-> <<>>]
Bool(b) == [t |-> "boolean", n |-> IF b THEN 1 ELSE 0, s |-> <<>>]
Obj(text) == [t |-> "object", n |-> 0, s |-> text]
NaN == [t |-> "number", n |-> 0, s |-> <<"N", "a", "N">>]
Infinity == [t |-> "number", n |-> 0, s |-> <<"I", "n", "f", "i", "n", "i", "t", "y">>]

typeof(x) == x.t

isNaN(x) == x = NaN

Digits == <<"0", "1", "2", "3", "4", "5", "6", "7", "8", "9">>
IsDigit(ch) == \E i \in 1..10 : Digits[i] = ch
DigitVal(ch) == (CHOOSE i \in 1..10 : Digits[i] = ch) - 1

RECURSIVE DecimalValue(_)
DecimalValue(s) ==
    IF s = <<>> THEN 0
    ELSE 10 * DecimalValue(SubSeq(s, 1, Len(s) - 1)) + DigitVal(s[Len(s)])

RECURSIVE NumberToString(_)
NumberToString(n) ==
    IF n < 10 THEN <<Digits[n + 1]>>
    ELSE NumberToString(n \div 10) \o <<Digits[(n % 10) + 1]>>

\* a string of decimal digits
IsNumeric(s) == s # <<>> /\ \A i \in 1..Len(s) : IsDigit(s[i])

UpperCase ==
    <<"A", "B", "C", "D", "E", "F", "G", "H", "I", "J", "K", "L", "M",
      "N", "O", "P", "Q", "R", "S", "T", "U", "V", "W", "X", "Y", "Z">>
LowerCase ==
    <<"a", "b", "c", "d", "e", "f", "g", "h", "i", "j", "k", "l", "m",
      "n", "o", "p", "q", "r", "s", "t", "u", "v", "w", "x", "y", "z">>

\* String.prototype.toLowerCase
toLowerCase(s) ==
    [i \in 1..Len(s) |->
        IF \E k \in 1..26 : UpperCase[k] = s[i]
        THEN LowerCase[CHOOSE k \in 1..26 : UpperCase[k] = s[i]]
        ELSE s[i]]

IsWhiteSpace(ch) == ch = " "

\* String.prototype.trim
RECURSIVE trim(_)
trim(s) ==
    IF s = <<>> THEN s
    ELSE IF IsWhiteSpace(s[1]) THEN trim(Tail(s))
    ELSE IF IsWhiteSpace(s[Len(s)]) THEN trim(SubSeq(s, 1, Len(s) - 1))
    ELSE s

\* String.prototype.includes
includes(s, sub) ==
    \E i \in 1..(Len(s) - Len(sub) + 1) : SubSeq(s, i, i + Len(sub) - 1) = sub

\* Number(value) on the strings of the model (no sign, fraction, exponent or
\* radix prefix occurs in them): white space around the text is ignored, the
\* empty text is 0, decimal digits are their value, "Infinity" is Infinity,
\* any other text is NaN.
Number(value) ==
    LET text == trim(value) IN
    IF text = <<>> THEN Num(0)
    ELSE IF IsNumeric(text) THEN Num(DecimalValue(text))
    ELSE IF text = Infinity.s THEN Infinity
    ELSE NaN

\* the template literal `${value}`
TemplateString(x) ==
    IF x.t = "string" THEN x.s
    ELSE IF x.t = "number" THEN (IF x.s = <<>> THEN NumberToString(x.n) ELSE x.s)
    ELSE IF x.t = "boolean" THEN (IF x.n = 1 THEN <<"t", "r", "u", "e">> ELSE <<"f", "a", "l", "s", "e">>)
    ELSE IF x.t = "undefined" THEN <<"u", "n", "d", "e", "f", "i", "n", "e", "d">>
    ELSE IF x.s = <<"n", "u", "l", "l">> THEN x.s
    ELSE IF x.s = <<"[", "]">> THEN <<>>
    ELSE <<"[", "o", "b", "j", "e", "c", "t", " ", "O", "b", "j", "e", "c", "t", "]">>

\* What a call returns or throws.  An EnvVarError (lines 53-59) has the message
\* `Environment variable error [${name}]: ${message}`: slot is the text
\* between the brackets, detail the text after them; kind tells where it was
\* thrown (Missing: line 160, ConfigMismatch: 152, InvalidFormat: 69, 83 and
\* 96, ValidationFailed: 184).
Return(value) ==
    [ok |-> TRUE, value |-> value, kind |-> "none", slot |-> <<>>, detail |-> <<>>]

EnvVarError(kind, name, message) ==
    [ok |-> FALSE, value |-> Undefined, kind |-> kind, slot |-> name, detail |-> message]

MessageHead ==
    <<"E", "n", "v", "i", "r", "o", "n", "m", "e", "n", "t", " ", "v", "a",
      "r", "i", "a", "b", "l", "e", " ", "e", "r", "r", "o", "r", " ", "[">>

\* error.message
Message(error) == MessageHead \o error.slot \o <<"]", ":", " ">> \o error.detail

InvalidNumber ==
    <<"I", "n", "v", "a", "l", "i", "d", " ", "n", "u", "m", "b", "e", "r",
      " ", "v", "a", "l", "u", "e", ":", " ">>

InvalidBoolean ==
    <<"I", "n", "v", "a", "l", "i", "d", " ", "b", "o", "o", "l", "e", "a",
      "n", " ", "v", "a", "l", "u", "e", ":", " ">>

InvalidJSON ==
    <<"I", "n", "v", "a", "l", "i", "d", " ", "J", "S", "O", "N", ":", " ">>

NotSet ==
    <<"V", "a", "r", "i", "a", "b", "l", "e", " ", "i", "s", " ", "r", "e",
      "q", "u", "i", "r", "e", "d", " ", "b", "u", "t", " ", "n", "o", "t",
      " ", "s", "e", "t">>

ValidationFailedFor ==
    <<"V", "a", "l", "i", "d", "a", "t", "i", "o", "n", " ", "f", "a", "i",
      "l", "e", "d", " ", "f", "o", "r", " ", "v", "a", "l", "u", "e", ":",
      " ">>

DefaultValueType ==
    <<"D", "e", "f", "a", "u", "l", "t", " ", "v", "a", "l", "u", "e", " ",
      "t", "y", "p", "e", " ", "(">>

DoesNotMatch ==
    <<")", " ", "d", "o", "e", "s", " ", "n", "o", "t", " ", "m", "a", "t",
      "c", "h", " ", "e", "x", "p", "e", "c", "t", "e", "d", " ", "t", "y",
      "p", "e", " ", "(">>

\* parseNumber, lines 66-72
parseNumber(value) ==
    LET parsed == Number(value) IN
    IF isNaN(parsed)
    THEN EnvVarError("InvalidFormat", <<>>, InvalidNumber \o value)
    ELSE Return(parsed)

\* mutant: the raw string is compared as it is written (no toLowerCase)
parseBooleanCaseSensitive(value) ==
    LET normalized == trim(value) IN
    IF normalized \in {<<"t", "r", "u", "e">>, <<"1">>, <<"y", "e", "s">>, <<"y">>}
    THEN Return(Bool(TRUE))
    ELSE IF normalized \in {<<"f", "a", "l", "s", "e">>, <<"0">>, <<"n", "o">>, <<"n">>}
    THEN Return(Bool(FALSE))
    ELSE EnvVarError("InvalidFormat", <<>>, InvalidBoolean \o value)

\* parseBoolean, lines 79-84
parseBoolean(value) ==
    LET normalized == trim(toLowerCase(value)) IN
    IF normalized \in {<<"t", "r", "u", "e">>, <<"1">>, <<"y", "e", "s">>, <<"y">>}
    THEN Return(Bool(TRUE))
    ELSE IF normalized \in {<<"f", "a", "l", "s", "e">>, <<"0">>, <<"n", "o">>, <<"n">>}
    THEN Return(Bool(FALSE))
    ELSE EnvVarError("InvalidFormat", <<>>, InvalidBoolean \o value)

\* the first words of the message of the SyntaxError JSON.parse throws; the
\* rest of that message is the engine's and is not modelled
UnexpectedToken ==
    <<"U", "n", "e", "x", "p", "e", "c", "t", "e", "d", " ", "t", "o", "k",
      "e", "n">>

\* JSON.parse on the texts of the model (no quote, sign, fraction or nested
\* value occurs in them): white space around the text is ignored; a number
\* without a leading zero, true, false, null, {} and [] are values, any other
\* text is a SyntaxError.
parseJSON(value) ==
    LET text == trim(value) IN
    IF IsNumeric(text) /\ (Len(text) = 1 \/ text[1] # "0")
    THEN Return(Num(DecimalValue(text)))
    ELSE IF text = <<"t", "r", "u", "e">> THEN Return(Bool(TRUE))
    ELSE IF text = <<"f", "a", "l", "s", "e">> THEN Return(Bool(FALSE))
    ELSE IF text \in {<<"n", "u", "l", "l">>, <<"{", "}">>, <<"[", "]">>} THEN Return(Obj(text))
    ELSE EnvVarError("InvalidFormat", <<>>, InvalidJSON \o UnexpectedToken)

\* typeToString, lines 105-107
typeToString(type) == IF type = "json" THEN "object" ELSE type

\* the text of a type name in a message
TypeText(type) ==
    CASE type = "string" -> <<"s", "t", "r", "i", "n", "g">>
      [] type = "number" -> <<"n", "u", "m", "b", "e", "r">>
      [] type = "boolean" -> <<"b", "o", "o", "l", "e", "a", "n">>
      [] type = "json" -> <<"j", "s", "o", "n">>
      [] type = "object" -> <<"o", "b", "j", "e", "c", "t">>
      [] OTHER -> <<"u", "n", "d", "e", "f", "i", "n", "e", "d">>

MustBePositive ==
    <<"M", "u", "s", "t", " ", "b", "e", " ", "p", "o", "s", "i", "t", "i",
      "v", "e">>

\* options.validate, a function of the caller (lines 47 and 132): none is
\* given, or it accepts every value, rejects every value with false, or
\* returns `value > 0 || 'Must be positive'`
Validators == {"none", "accept", "reject", "positive"}

\* the number a value is compared as by `value > 0`
ToNumber(value) ==
    IF value.t = "string" THEN Number(value.s)
    ELSE IF value.t = "object"
    THEN (IF value.s = <<"{", "}">> THEN NaN ELSE Num(0))
    ELSE value

validate(validator, value) ==
    CASE validator = "accept" -> Bool(TRUE)
      [] validator = "reject" -> Bool(FALSE)
      [] OTHER -> IF ToNumber(value) = Infinity
                     \/ (ToNumber(value).s = <<>> /\ ToNumber(value).n > 0)
                  THEN Bool(TRUE)
                  ELSE Str(MustBePositive)

\* options as the caller writes them; an omitted key is undefined
Options(isRequired, defaultValue, type, validator) ==
    [isRequired |-> isRequired, defaultValue |-> defaultValue, type |-> type,
     validate |-> validator]

\* lines 192-201: an EnvVarError thrown inside the try block gets the name put
\* into the first "[]" of its message unless the message includes the name
catch(name, error) ==
    IF ~includes(Message(error), name) /\ error.slot = <<>>
    THEN [error EXCEPT !.slot = name]
    ELSE error

\* line 145: the defaults of the destructured options
isRequiredOf(options) ==
    IF options.isRequired = Undefined THEN TRUE ELSE options.isRequired = Bool(TRUE)

typeOf(options) == IF options.type = "undefined" THEN "string" ELSE options.type

\* mutant: the default goes through options.validate like a converted value
missingValueValidated(name, options) ==
    IF options.defaultValue # Undefined
    THEN IF typeof(options.defaultValue) # typeToString(typeOf(options))
         THEN EnvVarError("ConfigMismatch", name,
                          DefaultValueType \o TypeText(typeof(options.defaultValue))
                          \o DoesNotMatch \o TypeText(typeOf(options)) \o <<")">>)
         ELSE IF options.validate = "none"
                 \/ validate(options.validate, options.defaultValue) = Bool(TRUE)
         THEN Return(options.defaultValue)
         ELSE EnvVarError("ValidationFailed", name,
                          ValidationFailedFor \o TemplateString(options.defaultValue))
    ELSE IF ~isRequiredOf(options) THEN Return(Str(<<>>))
    ELSE EnvVarError("Missing", name, NotSet)

\* mutant: a variable is required only when the caller says so
missingValueOptional(name, options) ==
    IF options.defaultValue # Undefined
    THEN IF typeof(options.defaultValue) # typeToString(typeOf(options))
         THEN EnvVarError("ConfigMismatch", name,
                          DefaultValueType \o TypeText(typeof(options.defaultValue))
                          \o DoesNotMatch \o TypeText(typeOf(options)) \o <<")">>)
         ELSE Return(options.defaultValue)
    ELSE IF options.isRequired # Bool(TRUE) THEN Return(Str(<<>>))
    ELSE EnvVarError("Missing", name, NotSet)

\* lines 149-160: the variable is not set
missingValue(name, options) ==
    IF options.defaultValue # Undefined
    THEN IF typeof(options.defaultValue) # typeToString(typeOf(options))
         THEN EnvVarError("ConfigMismatch", name,
                          DefaultValueType \o TypeText(typeof(options.defaultValue))
                          \o DoesNotMatch \o TypeText(typeOf(options)) \o <<")">>)
         ELSE Return(options.defaultValue)
    ELSE IF ~isRequiredOf(options) THEN Return(Str(<<>>))
    ELSE EnvVarError("Missing", name, NotSet)

\* lines 164-178: the conversion to the declared type
convert(type, rawValue) ==
    CASE type = "number" -> parseNumber(rawValue.s)
      [] type = "boolean" -> parseBoolean(rawValue.s)
      [] type = "json" -> parseJSON(rawValue.s)
      [] OTHER -> Return(rawValue)

\* mutant: a message returned by the validator is taken for a pass
validatedTruthy(name, validator, value) ==
    LET validationResult == validate(validator, value) IN
    IF validator = "none" \/ validationResult # Bool(FALSE)
    THEN Return(value)
    ELSE EnvVarError("ValidationFailed", name,
                     IF typeof(validationResult) = "string"
                     THEN validationResult.s
                     ELSE ValidationFailedFor \o TemplateString(value))

\* lines 181-191: the custom validation of the converted value
validated(name, validator, value) ==
    LET validationResult == validate(validator, value) IN
    IF validator = "none" \/ validationResult = Bool(TRUE)
    THEN Return(value)
    ELSE EnvVarError("ValidationFailed", name,
                     IF typeof(validationResult) = "string"
                     THEN validationResult.s
                     ELSE ValidationFailedFor \o TemplateString(value))

\* getEnvVar(name, options), lines 135-202, on a server (typeof window is
\* 'undefined'); rawValue is process.env[name]
getEnvVar(name, rawValue, options) ==
    IF rawValue = Undefined \/ rawValue.s = <<>>
    THEN missingValue(name, options)
    ELSE LET converted == convert(typeOf(options), rawValue) IN
         IF ~converted.ok THEN catch(name, converted)
         ELSE LET checked == validated(name, options.validate, converted.value) IN
              IF ~checked.ok THEN catch(name, checked) ELSE checked

\* The raw values process.env may hold for a timeout variable.
RawTimeouts == {Undefined, Str(<<"7", "0">>), Str(<<"x">>), Str(Infinity.s)}

\* ------------------------------------------------------------ connectToDb
NODE_ENV == <<"N", "O", "D", "E", "_", "E", "N", "V">>

\* the texts of the values of NodeEnv, line 39
NodeEnvText ==
    [development |-> <<"d", "e", "v", "e", "l", "o", "p", "m", "e", "n", "t">>,
     production |-> <<"p", "r", "o", "d", "u", "c", "t", "i", "o", "n">>,
     test |-> <<"t", "e", "s", "t">>]

\* the read of line 46, where process.env.NODE_ENV is raw
ReadNodeEnv(raw) ==
    getEnvVar(NODE_ENV, raw,
              Options(Undefined, Str(NodeEnvText.development), "undefined", "none"))

\* The raw values process.env may hold for NODE_ENV.
RawNodeEnvs == {Undefined} \cup {Str(NodeEnvText[tier]) : tier \in NodeEnvs}

\* mutant: the tier is read when the options are built (envIn.raw is
\* process.env.NODE_ENV then), not taken from the constant of line 46
isProductionAtCall == ReadNodeEnv(envIn.raw).value = Str(NodeEnvText.production)

\* line 52; nodeEnv is the constant of line 46, read when the module is loaded
isProduction == nodeEnv = "production"

maxRetries == IF isProduction THEN 3 ELSE 1

Settled(p) == chains[p].st \in {"resolved", "rejected"}

\* A continuation of a settled promise is queued: the microtask queue is not
\* empty, so no macrotask (I/O completion, timer, event) runs yet.
MicrotaskPending ==
    \E c \in Callers :
        \/ callers[c].pc = "await" /\ Settled(callers[c].p)
        \/ callers[c].pc \in {"closed", "closeFailed"}

Idle == [pc |-> "idle", p |-> 0]

\* the derived state of the ConnectionCache
State ==
    IF cached.conn # Null THEN "Connected"
    ELSE IF cached.promise # Null THEN "Connecting"
    ELSE "Disconnected"

\* the history record of an operation (of caller c): what acted, with what
\* result, the state of the cache it acted in, and the same of the operation
\* before it
Did(op, c, res, val) ==
    [op |-> op, res |-> res, val |-> val, from |-> State,
     prevOp |-> last.op, prevFrom |-> last.from]

\* no function of getEnvVar.ts is being applied
NoCall ==
    [fn |-> "none", name |-> <<>>, raw |-> Undefined,
     options |-> Options(Undefined, Undefined, "undefined", "none"),
     env |-> <<Undefined, Undefined, Undefined>>]

\* the call has not returned yet
Pending ==
    [ok |-> FALSE, value |-> Undefined, kind |-> "pending", slot |-> <<>>,
     detail |-> <<>>]

Init ==
    /\ envIn = NoCall
    /\ envOut = Pending
    /\ nodeEnv \in NodeEnvs
    /\ cached = [conn |-> Null, promise |-> Null]
    /\ chains = <<>>
    /\ callCount = 0
    /\ readyState = STATES.disconnected
    /\ liveConn = Null
    /\ listeners = 0
    /\ callers = [c \in Callers |-> Idle]
    /\ last = [op |-> "init", res |-> "none", val |-> 0, from |-> "Disconnected",
               prevOp |-> "init", prevFrom |-> "Disconnected"]

\* ---- connectToDb, lines 94-170 ------------------------------------------

\* lines 100-108: the three numeric reads made when no promise is cached
SOCKET_TIMEOUT ==
    <<"M", "O", "N", "G", "O", "D", "B", "_", "S", "O", "C", "K", "E", "T",
      "_", "T", "I", "M", "E", "O", "U", "T", "_", "M", "S">>
SERVER_SELECTION_TIMEOUT ==
    <<"M", "O", "N", "G", "O", "D", "B", "_", "S", "E", "R", "V", "E", "R",
      "_", "S", "E", "L", "E", "C", "T", "I", "O", "N", "_", "T", "I", "M",
      "E", "O", "U", "T", "_", "M", "S">>
CONNECT_TIMEOUT ==
    <<"M", "O", "N", "G", "O", "D", "B", "_", "C", "O", "N", "N", "E", "C",
      "T", "_", "T", "I", "M", "E", "O", "U", "T", "_", "M", "S">>

\* the three reads in a tier
TierReads(production, rawSocket, rawSelection, rawConnect) ==
    << getEnvVar(SOCKET_TIMEOUT, rawSocket,
                 Options(Undefined, Num(IF production THEN 45000 ELSE 30000),
                         "number", "none")),
       getEnvVar(SERVER_SELECTION_TIMEOUT, rawSelection,
                 Options(Undefined, Num(IF production THEN 10000 ELSE 5000),
                         "number", "none")),
       getEnvVar(CONNECT_TIMEOUT, rawConnect,
                 Options(Undefined, Num(30000), "number", "none")) >>

\* the same, tabulated: getEnvVar has no state, so a read depends on the tier
\* and the raw values only
ReadTable ==
    [production \in BOOLEAN, rawSocket \in RawTimeouts, rawSelection \in RawTimeouts,
     rawConnect \in RawTimeouts |->
        TierReads(production, rawSocket, rawSelection, rawConnect)]

ReadTimeouts(rawSocket, rawSelection, rawConnect) ==
    ReadTable[isProduction, rawSocket, rawSelection, rawConnect]

ConfigOk(reads) == \A i \in 1..3 : reads[i].ok

\* the read that throws: the first one that fails
FirstError(reads) == CHOOSE i \in 1..3 : ~reads[i].ok /\ \A k \in 1..(i - 1) : reads[k].ok

\* mutant: the production keys are spread into the options of every tier
optsAlwaysSpread(reads) ==
    [bufferCommands |-> FALSE,
     maxPoolSize |-> IF isProduction THEN 20 ELSE 10,
     socketTimeoutMS |-> reads[1].value,
     serverSelectionTimeoutMS |-> reads[2].value,
     connectTimeoutMS |-> reads[3].value,
     family |-> 4,
     production |-> {<<"retryWrites", "true">>, <<"retryReads", "true">>,
                     <<"w", "majority">>,
                     <<"readPreference", "secondaryPreferred">>,
                     <<"ssl", "true">>, <<"authSource", "admin">>,
                     <<"tlsAllowInvalidCertificates", "false">>}]

\* lines 110-129: the options passed to mongoose.connect; production holds the
\* keys spread into the options in production only
opts(reads) ==
    [bufferCommands |-> FALSE,
     maxPoolSize |-> IF isProduction THEN 20 ELSE 10,
     socketTimeoutMS |-> reads[1].value,
     serverSelectionTimeoutMS |-> reads[2].value,
     connectTimeoutMS |-> reads[3].value,
     family |-> 4,
     production |-> IF isProduction
                    THEN {<<"retryWrites", "true">>, <<"retryReads", "true">>,
                          <<"w", "majority">>,
                          <<"readPreference", "secondaryPreferred">>,
                          <<"ssl", "true">>, <<"authSource", "admin">>,
                          <<"tlsAllowInvalidCertificates", "false">>}
                    ELSE {}]

\* the environments a call of connectToDb may find: the three timeout
\* variables unset, one set to a number, one set to text that is no number,
\* one set to Infinity
Envs ==
    {<<Undefined, Undefined, Undefined>>,
     <<Str(<<"7", "0">>), Undefined, Undefined>>,
     <<Undefined, Str(<<"x">>), Undefined>>,
     <<Undefined, Undefined, Str(Infinity.s)>>}

\* mutant: the promise is looked at before the connection, so a caller that
\* finds a connection cached awaits the resolved promise instead of returning
connectCacheHitAwaits(c) ==
    /\ callers[c].pc = "idle"
    /\ cached.conn # Null
    /\ IF cached.promise # Null
       THEN /\ callers' = [callers EXCEPT ![c] = [pc |-> "await", p |-> cached.promise]]
            /\ last' = Did("connectJoin", c, "none", 0)
       ELSE /\ callers' = [callers EXCEPT ![c] = Idle]
            /\ last' = Did("connectCacheHit", c, "conn", cached.conn)
    /\ UNCHANGED <<envIn, envOut, nodeEnv, cached, chains, callCount, readyState, liveConn, listeners>>

\* lines 95-97: the cached connection is returned, nothing else happens
connectCacheHit(c) ==
    /\ callers[c].pc = "idle"
    /\ cached.conn # Null
    /\ callers' = [callers EXCEPT ![c] = Idle]
    /\ last' = Did("connectCacheHit", c, "conn", cached.conn)
    /\ UNCHANGED <<envIn, envOut, nodeEnv, cached, chains, callCount, readyState, liveConn, listeners>>

\* lines 99-108: a read of a timeout throws before line 134 (env: the raw values
\* of the three timeout variables)
connectConfigError(c, env) ==
    /\ callers[c].pc = "idle"
    /\ cached.conn = Null
    /\ cached.promise = Null
    /\ ~ConfigOk(ReadTimeouts(env[1], env[2], env[3]))
    /\ callers' = [callers EXCEPT ![c] = Idle]
    /\ last' = Did("connectConfigError", c, "configError",
                   FirstError(ReadTimeouts(env[1], env[2], env[3])))
    /\ UNCHANGED <<envIn, envOut, nodeEnv, cached, chains, callCount, readyState, liveConn, listeners>>

\* mutant: the promise is created without the check of line 99
connectStartUnchecked(c, env) ==
    /\ callers[c].pc = "idle"
    /\ cached.conn = Null
    /\ callCount < MaxCalls
    /\ ConfigOk(ReadTimeouts(env[1], env[2], env[3]))
    /\ chains' = Append(chains, [st |-> "connecting", attempt |-> 0, calls |-> 1,
                                 value |-> 0])
    /\ callCount' = callCount + 1
    /\ readyState' = STATES.connecting
    /\ cached' = [cached EXCEPT !.promise = Len(chains) + 1]
    /\ callers' = [callers EXCEPT ![c] = [pc |-> "await", p |-> Len(chains) + 1]]
    /\ last' = Did("connectStart", c, "none", 0)
    /\ UNCHANGED <<envIn, envOut, nodeEnv, liveConn, listeners>>

\* lines 99-160 and 163: the promise is created, its executor makes the first
\* mongoose.connect call (line 137), the promise is published and awaited
connectStart(c, env) ==
    /\ callers[c].pc = "idle"
    /\ cached.conn = Null
    /\ cached.promise = Null
    /\ callCount < MaxCalls
    /\ ConfigOk(ReadTimeouts(env[1], env[2], env[3]))
    /\ chains' = Append(chains, [st |-> "connecting", attempt |-> 0, calls |-> 1,
                                 value |-> 0])
    /\ callCount' = callCount + 1
    /\ readyState' = STATES.connecting
    /\ cached' = [cached EXCEPT !.promise = Len(chains) + 1]
    /\ callers' = [callers EXCEPT ![c] = [pc |-> "await", p |-> Len(chains) + 1]]
    /\ last' = Did("connectStart", c, "none", 0)
    /\ UNCHANGED <<envIn, envOut, nodeEnv, liveConn, listeners>>

\* lines 99 and 163: a promise is cached, the caller awaits that promise
connectJoin(c) ==
    /\ callers[c].pc = "idle"
    /\ cached.conn = Null
    /\ cached.promise # Null
    /\ callers' = [callers EXCEPT ![c] = [pc |-> "await", p |-> cached.promise]]
    /\ last' = Did("connectJoin", c, "none", 0)
    /\ UNCHANGED <<envIn, envOut, nodeEnv, cached, chains, callCount, readyState, liveConn, listeners>>

connectToDb(c) ==
    \/ connectCacheHit(c)
    \/ \E env \in Envs : connectConfigError(c, env)
    \/ \E env \in Envs : connectStart(c, env)
    \/ connectJoin(c)

\* ---- connectWithRetry, lines 135-155 ------------------------------------

\* lines 137-143: mongoose.connect resolves; the listener is registered and
\* the promise resolves with the instance
connectResolved(p) ==
    /\ p \in 1..Len(chains)
    /\ chains[p].st = "connecting"
    /\ ~MicrotaskPending
    /\ listeners' = listeners + 1
    /\ chains' = [chains EXCEPT ![p].st = "resolved", ![p].value = p]
    /\ readyState' = STATES.connected
    /\ liveConn' = p
    /\ last' = Did("connectResolved", 0, "none", 0)
    /\ UNCHANGED <<envIn, envOut, nodeEnv, cached, callCount, callers>>

\* mutant: the test of line 146 is missing, a failed attempt is always retried
connectFailedAlwaysRetries(p) ==
    /\ p \in 1..Len(chains)
    /\ chains[p].st = "connecting"
    /\ ~MicrotaskPending
    /\ chains' = [chains EXCEPT
                    ![p].attempt = chains[p].attempt + 1,
                    ![p].st = "waiting",
                    ![p].value = 0]
    /\ readyState' = STATES.disconnected
    /\ last' = Did("connectFailed", 0, "none", 0)
    /\ UNCHANGED <<envIn, envOut, nodeEnv, cached, callCount, liveConn, listeners, callers>>

\* mutant: the comparison of line 146 is attempt > maxRetries
connectFailedOffByOne(p) ==
    /\ p \in 1..Len(chains)
    /\ chains[p].st = "connecting"
    /\ ~MicrotaskPending
    /\ chains' = [chains EXCEPT
                    ![p].attempt = chains[p].attempt + 1,
                    ![p].st = IF chains[p].attempt + 1 > maxRetries
                              THEN "rejected" ELSE "waiting",
                    ![p].value = IF chains[p].attempt + 1 > maxRetries
                                 THEN chains[p].attempt + 1 ELSE 0]
    /\ readyState' = STATES.disconnected
    /\ last' = Did("connectFailed", 0, "none", 0)
    /\ UNCHANGED <<envIn, envOut, nodeEnv, cached, callCount, liveConn, listeners, callers>>

\* lines 144-153: mongoose.connect rejects; the attempt is counted and the
\* promise is rejected with this error or the delay of line 150 starts
connectFailed(p) ==
    /\ p \in 1..Len(chains)
    /\ chains[p].st = "connecting"
    /\ ~MicrotaskPending
    /\ chains' = [chains EXCEPT
                    ![p].attempt = chains[p].attempt + 1,
                    ![p].st = IF chains[p].attempt + 1 >= maxRetries
                              THEN "rejected" ELSE "waiting",
                    ![p].value = IF chains[p].attempt + 1 >= maxRetries
                                 THEN chains[p].attempt + 1 ELSE 0]
    /\ readyState' = STATES.disconnected
    /\ last' = Did("connectFailed", 0, "none", 0)
    /\ UNCHANGED <<envIn, envOut, nodeEnv, cached, callCount, liveConn, listeners, callers>>

\* lines 150-151: the delay ends and connectWithRetry calls mongoose.connect again
waitForTimeout(p) ==
    /\ p \in 1..Len(chains)
    /\ chains[p].st = "waiting"
    /\ ~MicrotaskPending
    /\ callCount < MaxCalls
    /\ chains' = [chains EXCEPT ![p].st = "connecting",
                                ![p].calls = chains[p].calls + 1]
    /\ callCount' = callCount + 1
    /\ readyState' = STATES.connecting
    /\ last' = Did("waitForTimeout", 0, "none", 0)
    /\ UNCHANGED <<envIn, envOut, nodeEnv, cached, liveConn, listeners, callers>>

\* lines 162-169: the awaited promise has settled and the caller resumes
connectResume(c) ==
    /\ callers[c].pc = "await"
    /\ Settled(callers[c].p)
    /\ LET ch == chains[callers[c].p] IN
       IF ch.st = "resolved"
       THEN /\ cached' = [cached EXCEPT !.conn = ch.value]
            /\ callers' = [callers EXCEPT ![c] = Idle]
            /\ last' = Did("connectReturn", c, "conn", ch.value)
       ELSE /\ cached' = [cached EXCEPT !.promise = Null]
            /\ callers' = [callers EXCEPT ![c] = Idle]
            /\ last' = Did("connectThrow", c, "error", ch.value)
    /\ UNCHANGED <<envIn, envOut, nodeEnv, chains, callCount, readyState, liveConn, listeners>>

\* mutant: the listener clears the connection only (line 141 missing)
onDisconnectedKeepsPromise ==
    /\ listeners > 0
    /\ ~MicrotaskPending
    /\ cached' = [cached EXCEPT !.conn = Null]
    /\ readyState' = STATES.disconnected
    /\ last' = Did("onDisconnected", 0, "none", 0)
    /\ UNCHANGED <<envIn, envOut, nodeEnv, chains, callCount, liveConn, listeners, callers>>

\* lines 138-142: the client emits 'disconnected' and a registered listener runs
onDisconnected ==
    /\ listeners > 0
    /\ ~MicrotaskPending
    /\ cached' = [conn |-> Null, promise |-> Null]
    /\ readyState' = STATES.disconnected
    /\ last' = Did("onDisconnected", 0, "none", 0)
    /\ UNCHANGED <<envIn, envOut, nodeEnv, chains, callCount, liveConn, listeners, callers>>

\* ---- disconnectFromDb, lines 179-186 ------------------------------------

\* mutant: the reset of lines 182-183 is outside the if of line 180
disconnectFromDbAlwaysResets(c) ==
    /\ callers[c].pc = "idle"
    /\ IF cached.conn # Null
       THEN /\ callers' = [callers EXCEPT ![c] = [pc |-> "closing", p |-> 0]]
            /\ readyState' = STATES.disconnecting
            /\ cached' = cached
            /\ last' = Did("disconnectClose", c, "none", 0)
       ELSE /\ callers' = [callers EXCEPT ![c] = Idle]
            /\ readyState' = readyState
            /\ cached' = [conn |-> Null, promise |-> Null]
            /\ last' = Did("disconnectNoop", c, "void", 0)
    /\ UNCHANGED <<envIn, envOut, nodeEnv, chains, callCount, liveConn, listeners>>

\* lines 180-181: the close is started and awaited, or nothing is done
disconnectFromDb(c) ==
    /\ callers[c].pc = "idle"
    /\ IF cached.conn # Null
       THEN /\ callers' = [callers EXCEPT ![c] = [pc |-> "closing", p |-> 0]]
            /\ readyState' = STATES.disconnecting
            /\ last' = Did("disconnectClose", c, "none", 0)
       ELSE /\ callers' = [callers EXCEPT ![c] = Idle]
            /\ readyState' = readyState
            /\ last' = Did("disconnectNoop", c, "void", 0)
    /\ UNCHANGED <<envIn, envOut, nodeEnv, cached, chains, callCount, liveConn, listeners>>

\* line 181: cached.conn.disconnect() settles
closeSettles(c, ok) ==
    /\ callers[c].pc = "closing"
    /\ ~MicrotaskPending
    /\ callers' = [callers EXCEPT ![c].pc = IF ok THEN "closed" ELSE "closeFailed"]
    /\ readyState' = IF ok THEN STATES.disconnected ELSE readyState
    /\ last' = Did("closeSettles", c, "none", 0)
    /\ UNCHANGED <<envIn, envOut, nodeEnv, cached, chains, callCount, liveConn, listeners>>

\* mutant: the reset of lines 182-183 is made whether the close succeeded or
\* failed
disconnectResumeAlwaysResets(c) ==
    /\ callers[c].pc \in {"closed", "closeFailed"}
    /\ IF callers[c].pc = "closed"
       THEN /\ cached' = [conn |-> Null, promise |-> Null]
            /\ callers' = [callers EXCEPT ![c] = Idle]
            /\ last' = Did("disconnectReturn", c, "void", 0)
       ELSE /\ cached' = [conn |-> Null, promise |-> Null]
            /\ callers' = [callers EXCEPT ![c] = Idle]
            /\ last' = Did("disconnectThrow", c, "closeError", 0)
    /\ UNCHANGED <<envIn, envOut, nodeEnv, chains, callCount, readyState, liveConn, listeners>>

\* mutant: the reset forgets the promise (line 183 missing)
disconnectResumeKeepsPromise(c) ==
    /\ callers[c].pc \in {"closed", "closeFailed"}
    /\ IF callers[c].pc = "closed"
       THEN /\ cached' = [cached EXCEPT !.conn = Null]
            /\ callers' = [callers EXCEPT ![c] = Idle]
            /\ last' = Did("disconnectReturn", c, "void", 0)
       ELSE /\ cached' = cached
            /\ callers' = [callers EXCEPT ![c] = Idle]
            /\ last' = Did("disconnectThrow", c, "closeError", 0)
    /\ UNCHANGED <<envIn, envOut, nodeEnv, chains, callCount, readyState, liveConn, listeners>>

\* lines 181-184: after the close the cache is reset; a failed close is thrown
disconnectResume(c) ==
    /\ callers[c].pc \in {"closed", "closeFailed"}
    /\ IF callers[c].pc = "closed"
       THEN /\ cached' = [conn |-> Null, promise |-> Null]
            /\ callers' = [callers EXCEPT ![c] = Idle]
            /\ last' = Did("disconnectReturn", c, "void", 0)
       ELSE /\ cached' = cached
            /\ callers' = [callers EXCEPT ![c] = Idle]
            /\ last' = Did("disconnectThrow", c, "closeError", 0)
    /\ UNCHANGED <<envIn, envOut, nodeEnv, chains, callCount, readyState, liveConn, listeners>>

\* ---- MongooseService.getConnection, README.md lines 504-509 --------------

\* the result of getConnection in the current state
getConnectionResult ==
    IF readyState = 0
    THEN [res |-> "notConnected", val |-> 0]
    ELSE [res |-> "conn", val |-> liveConn]

getConnection(c) ==
    /\ callers[c].pc = "idle"
    /\ callers' = [callers EXCEPT ![c] = Idle]
    /\ last' = Did("getConnection", c, getConnectionResult.res, getConnectionResult.val)
    /\ UNCHANGED <<envIn, envOut, nodeEnv, cached, chains, callCount, readyState, liveConn, listeners>>

Next ==
    \/ \E c \in Callers : connectToDb(c)
    \/ \E p \in 1..MaxCalls : connectResolved(p)
    \/ \E p \in 1..MaxCalls : connectFailed(p)
    \/ \E p \in 1..MaxCalls : waitForTimeout(p)
    \/ \E c \in Callers : connectResume(c)
    \/ onDisconnected
    \/ \E c \in Callers : disconnectFromDb(c)
    \/ \E c \in Callers, ok \in BOOLEAN : closeSettles(c, ok)
    \/ \E c \in Callers : disconnectResume(c)
    \/ \E c \in Callers : getConnection(c)

Spec == Init /\ [][Next]_vars

TypeOK ==
    /\ nodeEnv \in NodeEnvs
    /\ cached.conn \in 0..Len(chains)
    /\ cached.promise \in 0..Len(chains)
    /\ callCount <= MaxCalls
    /\ readyState \in 0..3
    /\ liveConn \in 0..Len(chains)

\* ---- the functions of getEnvVar.ts and the option building, applied -------
\* A second specification applies the pure functions to inputs drawn from
\* bounded sets: the initial state holds the arguments of one call, the one
\* step of a behaviour is that call.

\* the characters of the generated raw strings
Alphabet == {"0", "1", "7", "y", "Y", "n", " ", "z"}

\* all strings over Alphabet of length at most n
StringsUpTo(n) == UNION {[1..k -> Alphabet] : k \in 0..n}

\* longer raw strings: the boolean vocabulary in several letter cases, with
\* white space around it, a text near it, and the text of the infinite number
Words ==
    {<<"t", "r", "u", "e">>,
     <<"T", "R", "U", "E">>,
     <<"T", "r", "u", "e">>,
     <<"y", "e", "s">>,
     <<"Y", "E", "S">>,
     <<"y", "E", "s">>,
     <<"f", "a", "l", "s", "e">>,
     <<"F", "A", "L", "S", "E">>,
     <<"n", "o">>,
     <<"N", "O">>,
     <<"N", "o">>,
     <<" ", "t", "r", "u", "e">>,
     <<"n", "o", " ">>,
     <<"t", "r", "u">>,
     <<"n", "o", "p", "e">>,
     <<"I", "n", "f", "i", "n", "i", "t", "y">>,
     <<" ", "1", "7", " ">>}

RawStrings == StringsUpTo(MaxLen) \cup Words

\* names of variables
Names == {<<"T", "O">>, <<"P">>}

\* process.env[name]: unset, empty, or a text
RawValues ==
    {Undefined, Str(<<>>),
     Str(<<"7">>),
     Str(<<"0", "0", "7">>),
     Str(<<"T", "O">>),
     Str(<<"y", "e", "s">>),
     Str(<<" ", "Y", " ">>),
     Str(<<"I", "n", "f", "i", "n", "i", "t", "y">>),
     Str(<<"{", "}">>),
     Str(<<"n", "u", "l", "l">>),
     Str(<<"z">>)}

Defaults == {Undefined, Str(<<"d">>), Num(0), Bool(FALSE), Obj(<<"{", "}">>)}

Types == {"undefined", "string", "number", "boolean", "json"}

Call(fn, name, raw, options, env) ==
    [fn |-> fn, name |-> name, raw |-> raw, options |-> options, env |-> env]

GetCalls ==
    {Call("getEnvVar", name, raw, Options(isRequired, defaultValue, type, validator),
          NoCall.env) :
        name \in Names, raw \in RawValues,
        isRequired \in {Undefined, Bool(TRUE), Bool(FALSE)},
        defaultValue \in Defaults, type \in Types, validator \in Validators}

ParseCalls ==
    {Call(fn, <<>>, Str(raw), NoCall.options, NoCall.env) :
        fn \in {"parseNumber", "parseBoolean"}, raw \in RawStrings}

\* the options are built in an environment that holds raw as NODE_ENV and env
\* as the three timeouts
OptsCalls ==
    {Call("opts", NODE_ENV, raw, NoCall.options, <<rawSocket, rawSelection, rawConnect>>) :
        raw \in RawNodeEnvs, rawSocket \in RawTimeouts, rawSelection \in RawTimeouts,
        rawConnect \in RawTimeouts}

EnvInit ==
    /\ \/ envIn \in GetCalls \cup ParseCalls /\ nodeEnv = "development"
       \/ envIn \in OptsCalls /\ nodeEnv \in NodeEnvs
    /\ envOut = Pending
    /\ cached = [conn |-> Null, promise |-> Null]
    /\ chains = <<>>
    /\ callCount = 0
    /\ readyState = STATES.disconnected
    /\ liveConn = Null
    /\ listeners = 0
    /\ callers = [c \in Callers |-> Idle]
    /\ last = [op |-> "init", res |-> "none", val |-> 0, from |-> "Disconnected",
               prevOp |-> "init", prevFrom |-> "Disconnected"]

connection == <<nodeEnv, cached, chains, callCount, readyState, liveConn, listeners,
                callers, last>>

callGetEnvVar ==
    /\ envIn.fn = "getEnvVar"
    /\ envOut = Pending
    /\ envOut' = getEnvVar(envIn.name, envIn.raw, envIn.options)
    /\ UNCHANGED <<envIn, connection>>

callParseNumber ==
    /\ envIn.fn = "parseNumber"
    /\ envOut = Pending
    /\ envOut' = parseNumber(envIn.raw.s)
    /\ UNCHANGED <<envIn, connection>>

callParseBoolean ==
    /\ envIn.fn = "parseBoolean"
    /\ envOut = Pending
    /\ envOut' = parseBoolean(envIn.raw.s)
    /\ UNCHANGED <<envIn, connection>>

\* lines 100-129 of connectToDb: the reads, then the options
buildOptions ==
    /\ envIn.fn = "opts"
    /\ envOut = Pending
    /\ LET reads == ReadTimeouts(envIn.env[1], envIn.env[2], envIn.env[3]) IN
       envOut' = IF ConfigOk(reads) THEN Return(opts(reads))
                 ELSE reads[FirstError(reads)]
    /\ UNCHANGED <<envIn, connection>>

EnvNext ==
    \/ callGetEnvVar
    \/ callParseNumber
    \/ callParseBoolean
    \/ buildOptions

EnvSpec == EnvInit /\ [][EnvNext]_vars

\* the call has returned or thrown
Called(fn) == envIn.fn = fn /\ envOut # Pending

\* ---- the connection manager under the scheduling of the event loop --------
\* The third specification is the connection manager with the fairness the
\* event loop gives: a queued continuation runs, a mongoose.connect call
\* settles and a delay ends. An operation is started only when the calls its
\* tier allows fit into MaxCalls, so that the bound stops no retry chain.

\* the mongoose.connect calls of one more operation fit into MaxCalls
WithinMaxCalls == (Len(chains) + 1) * maxRetries <= MaxCalls

FairNext ==
    \/ \E c \in Callers : connectCacheHit(c)
    \/ \E c \in Callers, env \in Envs : connectConfigError(c, env)
    \/ \E c \in Callers, env \in Envs : WithinMaxCalls /\ connectStart(c, env)
    \/ \E c \in Callers : connectJoin(c)
    \/ \E p \in 1..MaxCalls : connectResolved(p)
    \/ \E p \in 1..MaxCalls : connectFailed(p)
    \/ \E p \in 1..MaxCalls : waitForTimeout(p)
    \/ \E c \in Callers : connectResume(c)
    \/ onDisconnected
    \/ \E c \in Callers : disconnectFromDb(c)
    \/ \E c \in Callers, ok \in BOOLEAN : closeSettles(c, ok)
    \/ \E c \in Callers : disconnectResume(c)
    \/ \E c \in Callers : getConnection(c)

\* A mongoose.connect call settles and the delay of line 150 ends: the event
\* loop runs their callbacks when the microtask queue is empty, which it is
\* again and again (strong fairness). The continuation of a settled await
\* stays queued until it runs (weak fairness).
Fairness ==
    /\ \A p \in 1..MaxCalls : SF_vars(connectResolved(p) \/ connectFailed(p))
    /\ \A p \in 1..MaxCalls : SF_vars(waitForTimeout(p))
    /\ \A c \in Callers : WF_vars(connectResume(c))
    /\ \A c \in Callers : WF_vars(disconnectResume(c))

FairSpec == Init /\ [][FairNext]_vars /\ Fairness


\* ---------------------------------------------------------------- claims

InFlight(p) == chains[p].st \in {"connecting", "waiting"}

Awaiting(c) == callers[c].pc = "await"

\* no mongoose.connect call has settled yet
NoAttemptCompleted ==
    \A p \in 1..Len(chains) : chains[p].st = "connecting" /\ chains[p].attempt = 0

C1_OneOperation ==
    (NoAttemptCompleted /\ \E c \in Callers : Awaiting(c))
        => /\ callCount = 1
           /\ Len(chains) = 1
           /\ cached.promise = 1
           /\ \A c \in Callers : Awaiting(c) => callers[c].p = 1

C1_SameOutcome ==
    \A c \in Callers :
        connectResume(c) =>
            /\ last'.val = chains[callers[c].p].value
            /\ last'.res = IF chains[callers[c].p].st = "resolved" THEN "conn" ELSE "error"

\* C1: while no underlying attempt has completed, the Connect() calls that are
\* waiting have started exactly one underlying connect operation, all of them
\* await that one published operation, and each waiter receives the outcome
\* of the operation it awaits.
C1_Coalesced == []C1_OneOperation /\ [][C1_SameOutcome]_vars

C1_Witness ==
    /\ NoAttemptCompleted
    /\ callCount = 1
    /\ \A c \in Callers : Awaiting(c) /\ callers[c].p = 1
    /\ last.op = "connectJoin"

\* C2: at most one underlying connect operation (retry chain) is in flight.
C2_AtMostOneInFlight ==
    Cardinality({p \in 1..Len(chains) : InFlight(p)}) <= 1

\* C3: at most one of cached.conn and cached.promise is populated.
C3_AtMostOnePopulated == ~(cached.conn # Null /\ cached.promise # Null)

\* the retry limit of the tier, as the claim states it
RetryLimit == IF nodeEnv = "production" THEN 3 ELSE 1

C4_Bounded ==
    \A p \in 1..Len(chains) :
        /\ chains[p].calls <= RetryLimit
        /\ chains[p].st = "rejected" => chains[p].calls = RetryLimit
        /\ chains[p].st = "waiting" => chains[p].calls < RetryLimit

C4_StopsOnSuccess ==
    \A p \in 1..Len(chains) :
        /\ chains[p].st = "resolved" => chains'[p] = chains[p]
        /\ connectResolved(p) => chains'[p].st = "resolved" /\ chains'[p].calls = chains[p].calls

\* C4: one connect operation makes at most maxRetries underlying attempts
\* (3 in production, 1 otherwise), fails only when all of them failed,
\* succeeds when an attempt succeeds (the last allowed one included) and makes
\* no attempt after a success.
C4_RetryLimit == []C4_Bounded /\ [][C4_StopsOnSuccess]_vars

C4_Witness ==
    \E p \in 1..Len(chains) :
        chains[p].st = "resolved" /\ chains[p].calls = 3 /\ chains[p].attempt = 2

\* C5: a waiter of an operation whose attempts all failed receives the error
\* of the last attempt, and the manager is then Disconnected.
C5_FailureResets ==
    [][\A c \in Callers :
          (connectResume(c) /\ chains[callers[c].p].st = "rejected")
              => /\ last'.res = "error"
                 /\ last'.val = chains[callers[c].p].calls
                 /\ cached'.conn = Null
                 /\ cached'.promise = Null]_vars

\* C6: in state Connected, Connect() returns the cached handle, starts no
\* underlying attempt and leaves the cache as it is.
C6_CacheHit ==
    [][\A c \in Callers :
          (cached.conn # Null /\ connectToDb(c))
              => /\ last'.res = "conn"
                 /\ last'.val = cached.conn
                 /\ callers'[c].pc = "idle"
                 /\ UNCHANGED <<cached, chains, callCount, readyState, liveConn, listeners>>]_vars

C6_Witness ==
    /\ last.op = "connectCacheHit"
    /\ last.from = "Connected"
    /\ last.val = cached.conn
    /\ cached.conn # Null

\* C7: a disconnection notice in state Connected clears both fields of the
\* cache, and a Connect() that follows it does not return a cached handle: it
\* starts a new underlying attempt (or fails on its configuration).
C7_NoticeResets ==
    [][/\ onDisconnected => cached' = [conn |-> Null, promise |-> Null]
       /\ \A c \in Callers :
            (last.op = "onDisconnected" /\ connectToDb(c))
                => \/ /\ callCount' = callCount + 1
                      /\ cached'.promise = Len(chains')
                      /\ chains'[Len(chains')].st = "connecting"
                      /\ Awaiting(c)'
                   \/ last'.res = "configError"]_vars

C7_Witness ==
    /\ last.prevOp = "onDisconnected"
    /\ last.prevFrom = "Connected"
    /\ last.op = "connectStart"
    /\ last.from = "Disconnected"
    /\ callCount = 2
    /\ chains[1].st = "resolved"
    /\ cached = [conn |-> Null, promise |-> 2]

\* C8: after a successful Connect(), getConnection returns the handle Connect()
\* returned; after a completed Disconnect(), getConnection fails.
C8_GetAfterConnectAndDisconnect ==
    /\ last.op = "connectReturn" =>
           getConnectionResult = [res |-> "conn", val |-> last.val]
    /\ last.op \in {"disconnectReturn", "disconnectNoop"} =>
           getConnectionResult.res = "notConnected"

\* C9: getConnection fails in every state other than Connected, and never
\* changes the cache or starts an attempt.
C9_NotConnectedUnlessConnected ==
    State # "Connected" => getConnectionResult.res = "notConnected"

\* C10: Disconnect() in a state other than Connected returns at once, closes
\* nothing and changes neither the cache nor an operation in flight.
C10_DisconnectNoop ==
    [][\A c \in Callers :
          (disconnectFromDb(c) /\ State # "Connected")
              => /\ callers'[c].pc = "idle"
                 /\ last'.res = "void"
                 /\ UNCHANGED <<cached, chains, callCount, readyState, liveConn, listeners>>]_vars

C10_Witness ==
    /\ last.op = "disconnectNoop"
    /\ last.from = "Connecting"
    /\ State = "Connecting"
    /\ \E p \in 1..Len(chains) : InFlight(p) /\ cached.promise = p

\* a Connect() called right after a completed Disconnect() makes a new
\* underlying attempt (or fails on its configuration)
C11_NewAttempt ==
    \A c \in Callers :
        (last.op = "disconnectReturn" /\ connectToDb(c))
            => \/ /\ callCount' = callCount + 1
                  /\ Len(chains') = Len(chains) + 1
                  /\ chains'[Len(chains')] =
                         [st |-> "connecting", attempt |-> 0, calls |-> 1, value |-> 0]
                  /\ cached' = [conn |-> Null, promise |-> Len(chains')]
                  /\ callers'[c] = [pc |-> "await", p |-> Len(chains')]
               \/ last'.res = "configError"

\* a Connect() that returns a handle returns the one its own operation produced
C11_OwnHandle ==
    \A c \in Callers :
        (connectResume(c) /\ chains[callers[c].p].st = "resolved")
            => /\ last'.val = callers[c].p
               /\ cached'.conn = callers[c].p

\* a completed Disconnect() leaves nothing of the closed connection in the cache
C11_NothingRemains ==
    last.op = "disconnectReturn" => cached = [conn |-> Null, promise |-> Null]

MalformedTimeout(raw) == raw # Undefined /\ raw.s # <<>> /\ ~IsNumeric(trim(raw.s))

\* C12: a Connect() that reads a malformed timeout while building its options
\* fails with the error of that read, makes no underlying attempt, publishes
\* no promise, and leaves the manager Disconnected.
C12_ConfigErrorAborts ==
    [][\A c \in Callers, env \in Envs :
          (/\ connectConfigError(c, env) \/ connectStart(c, env)
           /\ \E i \in 1..3 : MalformedTimeout(env[i]))
              => /\ last'.res = "configError"
                 /\ MalformedTimeout(env[last'.val])
                 /\ callers'[c] = Idle
                 /\ State' = "Disconnected"
                 /\ UNCHANGED <<cached, chains, callCount, readyState, liveConn, listeners>>]_vars

\* the declared type of a request (string when none is given) and the typeof
\* of the values of that type
expectedType == IF envIn.options.type = "undefined" THEN "string" ELSE envIn.options.type

RuntimeType(type) == IF type = "json" THEN "object" ELSE type

Absent == envIn.raw = Undefined \/ envIn.raw.s = <<>>

\* C13: Get fails with ConfigMismatch whenever a default is supplied whose
\* runtime type differs from the declared type, also when the variable is set.
C13_MismatchAlwaysRaised ==
    (/\ Called("getEnvVar")
     /\ envIn.options.defaultValue # Undefined
     /\ envIn.options.defaultValue.t # RuntimeType(expectedType))
        => ~envOut.ok /\ envOut.kind = "ConfigMismatch"

\* C14: Get fails with a Missing error and returns no value when the variable
\* is absent, no default is supplied and required is true or not specified.
C14_MissingRequired ==
    (/\ Called("getEnvVar")
     /\ Absent
     /\ envIn.options.defaultValue = Undefined
     /\ envIn.options.isRequired \in {Undefined, Bool(TRUE)})
        => /\ ~envOut.ok
           /\ envOut.kind = "Missing"
           /\ envOut.slot = envIn.name
           /\ envOut.detail = NotSet
           /\ envOut.value = Undefined

C14_Witness ==
    /\ Called("getEnvVar")
    /\ envIn.raw = Str(<<>>)
    /\ envIn.options.defaultValue = Undefined
    /\ envIn.options.isRequired = Undefined
    /\ envIn.options.type = "number"
    /\ envOut.kind = "Missing"

\* the boolean vocabulary of the claim
TrueWords == {<<"t", "r", "u", "e">>, <<"1">>, <<"y", "e", "s">>, <<"y">>}
FalseWords == {<<"f", "a", "l", "s", "e">>, <<"0">>, <<"n", "o">>, <<"n">>}

\* the outcome of a boolean coercion whose raw string, read as word, is in
\* the vocabulary or not
BooleanOutcome(word) ==
    IF word \in TrueWords THEN envOut.ok /\ envOut.value = Bool(TRUE)
    ELSE IF word \in FalseWords THEN envOut.ok /\ envOut.value = Bool(FALSE)
    ELSE ~envOut.ok /\ envOut.kind = "InvalidFormat"

\* C15 as stated: boolean coercion returns true exactly for "true", "1",
\* "yes", "y" in any letter case, false exactly for "false", "0", "no", "n" in
\* any letter case, and fails with InvalidFormat for every other raw string.
C15_ExactVocabulary ==
    Called("parseBoolean") => BooleanOutcome(toLowerCase(envIn.raw.s))

\* C15 as amended: white space before and after the raw string is ignored;
\* with it removed, boolean coercion returns true exactly for "true", "1",
\* "yes", "y" in any letter case, false exactly for "false", "0", "no", "n" in
\* any letter case, and fails with InvalidFormat for every other raw string.
C15_VocabularyTrimmed ==
    Called("parseBoolean") => BooleanOutcome(toLowerCase(trim(envIn.raw.s)))

C15_Witness ==
    /\ Called("parseBoolean")
    /\ envIn.raw.s = <<" ", "Y">>
    /\ envOut.ok
    /\ envOut.value = Bool(TRUE)

\* C16: numeric coercion returns the finite number a numeric raw string
\* represents, and fails with InvalidFormat for every raw string that is no
\* finite number: non-numeric text and the text of an infinite value (a
\* blank string is left open).
C16_FiniteNumbersOnly ==
    Called("parseNumber") =>
        LET text == trim(envIn.raw.s) IN
        /\ IsNumeric(text) =>
               envOut.ok /\ envOut.value = Num(DecimalValue(text))
        /\ (text # <<>> /\ ~IsNumeric(text)) =>
               ~envOut.ok /\ envOut.kind = "InvalidFormat"

\* the value the raw string is coerced to, and what the validator says of it
coerced == convert(expectedType, envIn.raw)
verdict == validate(envIn.options.validate, coerced.value)

Validating ==
    /\ Called("getEnvVar")
    /\ ~Absent
    /\ envIn.options.validate # "none"
    /\ coerced.ok

\* C17: when the validator applied to the coerced value returns false or a
\* message, Get fails with ValidationFailed, carrying the validator's message
\* when there is one and otherwise the generic message that names the value;
\* Get returns the value only when the validator returns true.
C17_ValidationFailed ==
    Validating =>
        /\ verdict = Bool(TRUE) => envOut.ok /\ envOut.value = coerced.value
        /\ verdict = Bool(FALSE) =>
               /\ ~envOut.ok /\ envOut.kind = "ValidationFailed"
               /\ envOut.slot = envIn.name
               /\ envOut.detail = ValidationFailedFor \o TemplateString(coerced.value)
        /\ verdict.t = "string" =>
               /\ ~envOut.ok /\ envOut.kind = "ValidationFailed"
               /\ envOut.slot = envIn.name
               /\ envOut.detail = verdict.s
        /\ envOut.ok => verdict = Bool(TRUE)

C17_Witness ==
    /\ Validating
    /\ envIn.options.validate = "reject"
    /\ envIn.options.type = "boolean"
    /\ envIn.raw.s = <<"y", "e", "s">>
    /\ envOut.detail = ValidationFailedFor \o <<"t", "r", "u", "e">>

\* a value of the declared type (a json value is any value JSON can write)
HasType(value, type) ==
    IF type = "json" THEN value.t \in {"string", "number", "boolean", "object"}
    ELSE value.t = type

\* C18: with the variable absent, not required and no default, Get returns the
\* empty string for the declared type string and raises ConfigMismatch or
\* Missing for number, boolean and json; every value Get returns has the
\* runtime type of the declared type.
C18_TypedResult ==
    Called("getEnvVar") =>
        /\ (Absent /\ envIn.options.defaultValue = Undefined
                   /\ envIn.options.isRequired = Bool(FALSE))
               => IF expectedType = "string"
                  THEN envOut.ok /\ envOut.value = Str(<<>>)
                  ELSE ~envOut.ok /\ envOut.kind \in {"ConfigMismatch", "Missing"}
        /\ envOut.ok => HasType(envOut.value, expectedType)

\* C19: every error Get raises for the variable named n has n in the name
\* slot of its message, whatever the kind of error and the raw value.
C19_ErrorNamesVariable ==
    (Called("getEnvVar") /\ ~envOut.ok) => envOut.slot = envIn.name

\* the timeout an operation uses: the configured number when the variable is
\* set to one, the default of the tier when it is not set
TimeoutFollows(timeout, raw, default) ==
    /\ raw = Undefined => timeout = Num(default)
    /\ (raw # Undefined /\ IsNumeric(raw.s)) => timeout = Num(DecimalValue(raw.s))

ReliabilityFlags ==
    {<<"retryWrites", "true">>, <<"retryReads", "true">>, <<"w", "majority">>,
     <<"readPreference", "secondaryPreferred">>, <<"ssl", "true">>,
     <<"authSource", "admin">>}

\* C20: the options of a connect operation follow the tier: in production
\* pool size 20, default timeouts 45000 and 10000, reliability flags present;
\* in development and test pool size 10, defaults 30000 and 5000, no
\* reliability flag; a configured timeout replaces its default in both.
C20_TierPolicy ==
    (Called("opts") /\ envOut.ok) =>
        LET o == envOut.value IN
        IF nodeEnv = "production"
        THEN /\ o.maxPoolSize = 20
             /\ ReliabilityFlags \subseteq o.production
             /\ TimeoutFollows(o.socketTimeoutMS, envIn.env[1], 45000)
             /\ TimeoutFollows(o.serverSelectionTimeoutMS, envIn.env[2], 10000)
        ELSE /\ o.maxPoolSize = 10
             /\ o.production = {}
             /\ TimeoutFollows(o.socketTimeoutMS, envIn.env[1], 30000)
             /\ TimeoutFollows(o.serverSelectionTimeoutMS, envIn.env[2], 5000)

C20_Witness ==
    /\ Called("opts")
    /\ envOut.ok
    /\ nodeEnv = "test"
    /\ envIn.env[1] = Undefined
    /\ envIn.env[2] = Str(<<"7", "0">>)
    /\ envOut.value.maxPoolSize = 10
    /\ envOut.value.socketTimeoutMS = Num(30000)
    /\ envOut.value.serverSelectionTimeoutMS = Num(70)


\* the edges of the state machine
Edges ==
    {<<"Disconnected", "Connecting">>, <<"Connecting", "Connected">>,
     <<"Connecting", "Disconnected">>, <<"Connected", "Disconnected">>}

\* C21: the state of the manager changes only along the edges Disconnected ->
\* Connecting, Connecting -> Connected, Connecting -> Disconnected and
\* Connected -> Disconnected; it never goes from Disconnected to Connected.
C21_OnlyEdges == [][State' = State \/ <<State, State'>> \in Edges]_vars


\* C22: when every mongoose.connect call and every retry delay finishes, a
\* caller that awaits a connect operation eventually stops awaiting it (with
\* a handle or an error), and the manager does not stay Connecting forever.
C22_Terminates ==
    /\ \A c \in Callers : Awaiting(c) ~> ~Awaiting(c)
    /\ []<>(State # "Connecting")


\* a caller resumes with the handle of an operation during whose flight a
\* 'disconnected' event had cleared the cache
C22_Witness ==
    /\ last.op = "connectReturn"
    /\ last.from = "Disconnected"
    /\ last.prevOp = "connectResolved"
    /\ \A c \in Callers : ~Awaiting(c)


\* the options a tier gives in the environment of the call
TierOptions(production) ==
    LET o == envOut.value IN
    /\ maxRetries = IF production THEN 3 ELSE 1
    /\ o.maxPoolSize = IF production THEN 20 ELSE 10
    /\ o.production # {} <=> production
    /\ TimeoutFollows(o.socketTimeoutMS, envIn.env[1],
                      IF production THEN 45000 ELSE 30000)
    /\ TimeoutFollows(o.serverSelectionTimeoutMS, envIn.env[2],
                      IF production THEN 10000 ELSE 5000)
    /\ TimeoutFollows(o.connectTimeoutMS, envIn.env[3], 30000)

\* C23, as stated: the options of a connect operation are those of the tier
\* that NODE_ENV holds when the operation starts.
C23_TierAtStart ==
    (Called("opts") /\ envOut.ok) =>
        TierOptions(ReadNodeEnv(envIn.raw).value = Str(NodeEnvText.production))

\* C23, amended: the options of a connect operation are those of the tier
\* read when the module was loaded, whatever NODE_ENV holds when the
\* operation starts, with the timeouts the environment holds at that time.
C23_TierAtLoad ==
    (Called("opts") /\ envOut.ok) => TierOptions(nodeEnv = "production")

\* the module was loaded in development, NODE_ENV is production when the
\* operation starts, and the options are those of development
C23_Witness ==
    /\ Called("opts")
    /\ envOut.ok
    /\ nodeEnv = "development"
    /\ envIn.raw = Str(NodeEnvText.production)
    /\ envIn.env = <<Undefined, Str(<<"7", "0">>), Undefined>>
    /\ envOut.value.maxPoolSize = 10
    /\ envOut.value.production = {}
    /\ envOut.value.socketTimeoutMS = Num(30000)
    /\ envOut.value.serverSelectionTimeoutMS = Num(70)


\* C24: the reset of a Disconnect() that resumes after its close does not
\* clear the promise of a connect operation started while the close was
\* pending. (The operation is the one published in the step before the close
\* settled, so after the Disconnect() began; nothing has acted since.)
C24_KeepsLaterOperation ==
    [][\A c \in Callers :
          (/\ callers[c].pc = "closed"
           /\ last.op = "closeSettles"
           /\ last.prevOp = "connectStart"
           /\ disconnectResume(c))
              => cached'.promise = cached.promise]_vars

\* C25: Connect() returns no handle whose close a Disconnect() has started
\* and not yet followed by its reset of the cache. (The close is the one
\* started in the step before, so the handle being closed is cached.conn.)
C25_NoHandleBeingClosed ==
    [][last.op = "disconnectClose"
          => ~(last'.op \in {"connectCacheHit", "connectReturn"}
               /\ last'.val = cached.conn)]_vars

\* C26: at most one 'disconnected' listener is registered at any time.
C26_OneListener == listeners <= 1

\* C27: a Disconnect() whose close fails throws the error of the close and
\* leaves the cache as it is; a Disconnect() changes the cache only when it
\* resumes after a close that succeeded.
C27_FailedCloseKeepsCache ==
    [][\A c \in Callers :
          /\ (callers[c].pc = "closeFailed" /\ disconnectResume(c))
                => /\ last'.res = "closeError"
                   /\ callers'[c].pc = "idle"
                   /\ cached' = cached
          /\ (callers[c].pc = "idle" /\ disconnectFromDb(c)) => cached' = cached
          /\ (callers[c].pc = "closing" /\ \E ok \in BOOLEAN : closeSettles(c, ok))
                => cached' = cached]_vars

\* a Disconnect() called in state Connected has thrown the error of its close
\* and the handle it tried to close is still cached
C27_Witness ==
    /\ last.op = "disconnectThrow"
    /\ last.res = "closeError"
    /\ last.from = "Connected"
    /\ last.prevOp = "closeSettles"
    /\ State = "Connected"
    /\ cached.conn = 1
    /\ Len(chains) = 1


\* C28: when the variable is unset or empty and a default of the declared
\* type is given, getEnvVar returns the default as it is, whatever
\* options.validate would say of it.
C28_DefaultNotValidated ==
    (/\ Called("getEnvVar")
     /\ Absent
     /\ envIn.options.defaultValue # Undefined
     /\ typeof(envIn.options.defaultValue) = RuntimeType(expectedType))
        => /\ envOut.ok
           /\ envOut.value = envIn.options.defaultValue

\* the variable is empty, the default 0 is returned although the validator
\* `value > 0 || 'Must be positive'` does not return true for it
C28_Witness ==
    /\ Called("getEnvVar")
    /\ envIn.raw = Str(<<>>)
    /\ envIn.options.type = "number"
    /\ envIn.options.defaultValue = Num(0)
    /\ envIn.options.validate = "positive"
    /\ validate("positive", Num(0)) = Str(MustBePositive)
    /\ envOut = Return(Num(0))

====
